---------------------------- MODULE Spec2Model ----------------------------
(***************************************************************************)
(* A model of the pipeline adapter of the integration service              *)
(* (controllers/pipeline/pipeline_adapter.go): the two operations          *)
(* EnsureApplicationSnapshotExists and                                     *)
(* EnsureApplicationSnapshotPassedAllTests, run by concurrent handlings of *)
(* PipelineRun events against one shared object store.  Every call of the  *)
(* store client (Get, List, Create, Status().Patch, Status().Update) is    *)
(* one atomic step that may fail; what a handling computes between two     *)
(* calls belongs to the step of the call before it.                        *)
(***************************************************************************)
EXTENDS Integers, Sequences, FiniteSets

\* ------------------------------------------------------------------ bounds
\* The store holds at most this many ApplicationSnapshots.
MaxSnapshots == 2
\* The component lists compareApplicationSnapshots is called with have at
\* most this many entries.
MaxLen == 2
\* A PipelineRun has at most this many TaskRuns.
MaxTaskRuns == 2
\* The clock of meta.SetStatusCondition reads at most this many seconds.
MaxNow == 3

\* ------------------------------------------------------------ the universe
\* The Components an Application may have, the repository each one is
\* built to, and the digests an image may carry.
CompNames == {"A", "B"}
Repo == [c \in CompNames |-> IF c = "A" THEN "r/a" ELSE "r/b"]
\* Component A is built to two digests, Component B to one.
Digests(c) == IF c = "A" THEN {"sha1", "sha2"} ELSE {"sha1"}
AppName == "app1"
None == "none"

\* An image reference is a sequence of tokens: <<"r/a", ":", "v1">> is
\* r/a:v1 and <<"r/a", "@", "sha1">> is r/a@sha1.
RecordedImage(c, d) == <<Repo[c], "@", d>>
RecordedImages(c) == {RecordedImage(c, d) : d \in Digests(c)}

\* The reconcile workers: each runs one handling at a time.
Handlers == {"w1", "w2"}

\* The IntegrationTestScenarios an Application may have, and the completion
\* times of a test PipelineRun.
ScenarioNames == {"S1", "S2"}
Times == {1, 2}

VARIABLES
    components,   \* the Components of the Application: name -> Status.ContainerImage
    snapshots,    \* the ApplicationSnapshots of the Application, in creation order
    scenarios,    \* the IntegrationTestScenarios: name -> value of the optional label
    pool,         \* the test PipelineRuns the pipeline engine is running
    runs,         \* the completed test PipelineRuns in the store
    h,            \* the handlings: an Adapter and the position of its operation
    call,         \* one call of compareApplicationSnapshots: arguments and result
    events        \* the completed test PipelineRuns whose event awaits handling

vars == <<components, snapshots, scenarios, pool, runs, h, call, events>>

\* ---------------------------------------------------------------- helpers
Range(s) == {s[i] : i \in 1..Len(s)}

\* All the orders in which a List call may return the elements of a set.
Orders(S) ==
    {p \in [1..Cardinality(S) -> S] : \A x \in S : \E i \in DOMAIN p : p[i] = x}

\* strings.Split(s, sep)[0]: the tokens before the first separator.
RECURSIVE SplitFirst(_, _)
SplitFirst(s, sep) ==
    IF s = <<>> \/ Head(s) = sep THEN <<>>
    ELSE <<Head(s)>> \o SplitFirst(Tail(s), sep)

\* ------------------------------------------------------- package results
\* OperationResult and the error returned with it.  The caller (the
\* controller) delivers the event again when the operation asks for a
\* requeue or returns an error.
ContinueProcessing ==
    [RequeueRequest |-> FALSE, CancelRequest |-> FALSE, err |-> FALSE]
RequeueWithError ==
    [RequeueRequest |-> TRUE, CancelRequest |-> FALSE, err |-> TRUE]
RequeueOnErrorOrStop(failed) ==
    [RequeueRequest |-> FALSE, CancelRequest |-> TRUE, err |-> failed]
NoResult ==
    [RequeueRequest |-> FALSE, CancelRequest |-> FALSE, err |-> FALSE]
Redelivered(r) == r.RequeueRequest \/ r.err

\* -------------------------------------------------------- package tekton
IsBuildPipelineRun(run) == run.type = "build"
IsIntegrationPipelineRun(run) == run.type = "test"
\* GetOutputImage / GetOutputImageDigest: the parameter, or an error when
\* the PipelineRun does not carry it.
GetOutputImage(run) ==
    [err |-> run.outputImage = <<>>, value |-> run.outputImage]
GetOutputImageDigest(run) ==
    [err |-> run.digest = None, value |-> run.digest]

\* ------------------------------------------------------------ PipelineRuns
\* A build PipelineRun of Component c: its output-image parameter (absent:
\* <<>>) and the digest it produced.
BuildRun(c, image, d) ==
    [type |-> "build", component |-> c, outputImage |-> image, digest |-> d,
     snapshot |-> 0, scenario |-> None, succeeded |-> TRUE, time |-> 0,
     TaskRuns |-> <<>>]
NoRun == BuildRun(None, <<>>, None)

\* A test PipelineRun: its scenario label, its snapshot label (the name of
\* a Snapshot, which is its position in the store; 0: no label), whether its
\* Succeeded condition is true, its completion time and its TaskRuns.
TestRun(sc, sn, succ, t, taskRuns) ==
    [type |-> "test", component |-> None, outputImage |-> <<>>, digest |-> None,
     snapshot |-> sn, scenario |-> sc, succeeded |-> succ, time |-> t,
     TaskRuns |-> taskRuns]

\* The values of a task result: JSON documents, and one that is not JSON.
JsonSuccess == "{\"result\":\"SUCCESS\"}"
JsonSkipped == "{\"result\":\"SKIPPED\"}"
JsonFailure == "{\"result\":\"FAILURE\"}"
JsonNoResult == "{\"note\":\"x\"}"
NotJson == "result: SUCCESS"

TaskRun(name, results) == [PipelineTaskName |-> name, TaskRunResults |-> results]
Output(value) == [Name |-> "HACBS_TEST_OUTPUT", Value |-> value]

PassingTaskRuns ==
    <<TaskRun("t1", <<Output(JsonSuccess)>>), TaskRun("t2", <<Output(JsonSkipped)>>)>>
FailingTaskRuns ==
    <<TaskRun("t1", <<Output(JsonSuccess)>>), TaskRun("t2", <<Output(JsonFailure)>>)>>
MalformedTaskRuns ==
    <<TaskRun("t1", <<Output(NotJson)>>)>>

\* The test PipelineRuns that may complete.  On Snapshot 1: three succeeded
\* runs of scenario S1 (a passing one at time 1, a failing and a passing one
\* at time 2), a run of S1 that did not succeed, a passing run of S2 and a
\* run of S2 whose task result is not JSON.  A run without a snapshot label,
\* and a run on Snapshot 2.
TestRuns ==
    {TestRun("S1", 1, TRUE, 1, PassingTaskRuns),
     TestRun("S1", 1, TRUE, 2, FailingTaskRuns),
     TestRun("S1", 1, TRUE, 2, PassingTaskRuns),
     TestRun("S1", 1, FALSE, 2, FailingTaskRuns),
     TestRun("S2", 1, TRUE, 1, PassingTaskRuns),
     TestRun("S2", 1, TRUE, 1, MalformedTaskRuns),
     TestRun("S1", 0, TRUE, 1, PassingTaskRuns),
     TestRun("S1", 2, TRUE, 1, FailingTaskRuns)}

BuildRuns ==
    UNION {{BuildRun(c, <<Repo[c], ":", "latest">>, d) : d \in Digests(c)} :
              c \in CompNames}
    \cup {BuildRun("A", <<>>, "sha1")}

\* ---------------------------------------------------------------- Adapter
\* No call of compareApplicationSnapshots is under way.
NoCall == [expected |-> <<>>, found |-> <<>>, returned |-> FALSE, result |-> FALSE]

\* The HACBSTestSucceeded condition of a Snapshot; a Snapshot without the
\* condition has the verdict Unknown.
NoCondition == [Status |-> "Unknown", Reason |-> "", Message |-> ""]
PassedCondition ==
    [Status |-> "True", Reason |-> "Passed",
     Message |-> "All Integration Pipeline tests passed"]
FailedCondition ==
    [Status |-> "False", Reason |-> "Failed",
     Message |-> "Some Integration pipeline tests failed"]

NoSnapshot == [Application |-> None, Components |-> <<>>, component |-> None,
               condition |-> NoCondition]

\* The two operations of the Adapter.
OpExists == "EnsureApplicationSnapshotExists"
OpPassedAllTests == "EnsureApplicationSnapshotPassedAllTests"

\* An Adapter between two handlings.  op: the operation the controller
\* runs; run, component: the PipelineRun and Component it was made for;
\* expected, seen, prepared: the locals of EnsureApplicationSnapshotExists; snapshot (a name, 0: none), condition,
\* required, next, resolved, passed: the locals of
\* EnsureApplicationSnapshotPassedAllTests; err: the call whose error the
\* operation holds ("": none); result: what the operation returned; ops: the
\* store writes this handling has made.
Idle ==
    [pc |-> "idle", op |-> None, run |-> NoRun, component |-> None,
     expected |-> NoSnapshot, seen |-> 0, prepared |-> NoSnapshot,
     snapshot |-> 0, condition |-> NoCondition, required |-> <<>>,
     next |-> 0, resolved |-> <<>>, passed |-> FALSE,
     err |-> "", result |-> NoResult, ops |-> {}]

\* getImagePullSpecFromPipelineRun
getImagePullSpecFromPipelineRun(run) ==
    LET outputImage == GetOutputImage(run)
        imageDigest == GetOutputImageDigest(run)
    IN  IF outputImage.err THEN [err |-> TRUE, value |-> <<>>]
        ELSE IF imageDigest.err THEN [err |-> TRUE, value |-> <<>>]
        ELSE [err |-> FALSE,
              value |-> SplitFirst(outputImage.value, ":")
                            \o <<"@", imageDigest.value>>]

\* The entry prepareApplicationSnapshotForPipelineRun appends for one
\* listed Component.
SnapshotComponent(applicationComponent, component, pullSpecOfRun) ==
    [Name |-> applicationComponent.Name,
     ContainerImage |->
         IF applicationComponent.Name = component
         THEN pullSpecOfRun.value
         ELSE applicationComponent.ContainerImage]

\* prepareApplicationSnapshotForPipelineRun without the overlay of the
\* PipelineRun's image: every Component keeps its recorded image.
prepareWithoutOverlay(run, component, applicationComponents) ==
    [err |-> FALSE,
     snapshot |->
         [Application |-> AppName,
          Components |->
              [i \in 1..Len(applicationComponents) |->
                  [Name |-> applicationComponents[i].Name,
                   ContainerImage |-> applicationComponents[i].ContainerImage]],
          component |-> component,
          condition |-> NoCondition]]

\* prepareApplicationSnapshotForPipelineRun, given the Components that
\* getAllApplicationComponents listed.
prepareApplicationSnapshotForPipelineRun(run, component, applicationComponents) ==
    LET pullSpec == getImagePullSpecFromPipelineRun(run)
        hit == \E i \in 1..Len(applicationComponents) :
                   applicationComponents[i].Name = component
    IN  IF hit /\ pullSpec.err
        THEN [err |-> TRUE, snapshot |-> NoSnapshot]
        ELSE [err |-> FALSE,
              snapshot |->
                  [Application |-> AppName,
                   Components |->
                       [i \in 1..Len(applicationComponents) |->
                           SnapshotComponent(applicationComponents[i],
                                             component, pullSpec)],
                   component |-> component,
                   condition |-> NoCondition]]

\* compareApplicationSnapshots, with the order of the comparison swapped
\* into a positional one: a plausible slip.
compareApplicationSnapshotsPositional(expected, found) ==
    expected.Components = found.Components

\* compareApplicationSnapshots
compareApplicationSnapshots(expected, found) ==
    LET snapshotsHaveSameNumberOfImages ==
            Len(expected.Components) = Len(found.Components)
        allImagesMatch ==
            \A i \in 1..Len(expected.Components) :
                \E j \in 1..Len(found.Components) :
                    found.Components[j] = expected.Components[i]
    IN  snapshotsHaveSameNumberOfImages /\ allImagesMatch

\* findMatchingApplicationSnapshot with a loop that stops one short of the
\* last listed Snapshot.
findMatchingSkippingLast(expected, all) ==
    IF \E i \in 1..(Len(all) - 1) : compareApplicationSnapshots(expected, all[i])
    THEN CHOOSE i \in 1..(Len(all) - 1) :
             compareApplicationSnapshots(expected, all[i])
    ELSE 0

\* findMatchingApplicationSnapshot, given the Snapshots that
\* getAllApplicationSnapshots listed: the index of the first match, or 0.
findMatchingApplicationSnapshot(expected, all) ==
    IF \E i \in 1..Len(all) : compareApplicationSnapshots(expected, all[i])
    THEN CHOOSE i \in 1..Len(all) :
             /\ compareApplicationSnapshots(expected, all[i])
             /\ \A j \in 1..(i - 1) : ~compareApplicationSnapshots(expected, all[j])
    ELSE 0

\* getAllApplicationComponents: the Components of the Application in any
\* order (the cache-backed client does not order a List).
ComponentListings ==
    {[i \in DOMAIN p |-> [Name |-> p[i], ContainerImage |-> components[p[i]]]] :
        p \in Orders(DOMAIN components)}

\* ------------------------------------- EnsureApplicationSnapshotPassedAllTests
\* getRequiredIntegrationTestScenariosForApplication keeping only the
\* scenarios without the label, as a selector "!optional" would.
IsScenarioWithoutOptionalLabel(s) == scenarios[s] = ""

\* getRequiredIntegrationTestScenariosForApplication: the selector
\* "test.appstudio.openshift.io/optional notin (false)" keeps a scenario
\* whose label is absent ("") or has another value.
IsRequiredScenario(s) == scenarios[s] # "absent" /\ scenarios[s] # "false"
RequiredScenarios == {s \in ScenarioNames : IsRequiredScenario(s)}

\* json.Unmarshal of a task result into a map.
Unmarshal(value) ==
    CASE value = JsonSuccess -> [err |-> FALSE, map |-> [f \in {"result"} |-> "SUCCESS"]]
      [] value = JsonSkipped -> [err |-> FALSE, map |-> [f \in {"result"} |-> "SKIPPED"]]
      [] value = JsonFailure -> [err |-> FALSE, map |-> [f \in {"result"} |-> "FAILURE"]]
      [] value = JsonNoResult -> [err |-> FALSE, map |-> [f \in {"note"} |-> "x"]]
      [] OTHER -> [err |-> TRUE, map |-> [f \in {} |-> ""]]

\* testOutput["result"]: nil when the map has no such key.
ResultField(map) == IF "result" \in DOMAIN map THEN map["result"] ELSE "nil"

\* The task results of a run in the order the two loops of
\* calculateIntegrationPipelineRunOutcome visit them, when the TaskRuns map
\* is ranged over in the order `order` (a permutation of its indices).
RECURSIVE VisitOrder(_, _)
VisitOrder(taskRuns, order) ==
    IF order = <<>> THEN <<>>
    ELSE taskRuns[Head(order)].TaskRunResults \o VisitOrder(taskRuns, Tail(order))

\* calculateIntegrationPipelineRunOutcome with a result that has no `result`
\* field let through as if it read SUCCESS.
RECURSIVE OutcomeLettingMissingThrough(_)
OutcomeLettingMissingThrough(rs) ==
    IF rs = <<>> THEN [outcome |-> TRUE, err |-> FALSE]
    ELSE IF Head(rs).Name = "HACBS_TEST_OUTPUT"
         THEN LET testOutput == Unmarshal(Head(rs).Value)
              IN  IF testOutput.err THEN [outcome |-> FALSE, err |-> TRUE]
                  ELSE IF ResultField(testOutput.map) \notin {"SUCCESS", "SKIPPED", "nil"}
                  THEN [outcome |-> FALSE, err |-> FALSE]
                  ELSE OutcomeLettingMissingThrough(Tail(rs))
         ELSE OutcomeLettingMissingThrough(Tail(rs))

\* calculateIntegrationPipelineRunOutcome over the results in visiting order.
RECURSIVE OutcomeOfResults(_)
OutcomeOfResults(rs) ==
    IF rs = <<>> THEN [outcome |-> TRUE, err |-> FALSE]
    ELSE IF Head(rs).Name = "HACBS_TEST_OUTPUT"
         THEN LET testOutput == Unmarshal(Head(rs).Value)
              IN  IF testOutput.err THEN [outcome |-> FALSE, err |-> TRUE]
                  ELSE IF /\ ResultField(testOutput.map) # "SUCCESS"
                          /\ ResultField(testOutput.map) # "SKIPPED"
                  THEN [outcome |-> FALSE, err |-> FALSE]
                  ELSE OutcomeOfResults(Tail(rs))
         ELSE OutcomeOfResults(Tail(rs))

\* calculateIntegrationPipelineRunOutcome: every outcome the call can have
\* (Go ranges over the TaskRuns map in an unspecified order).
calculateIntegrationPipelineRunOutcome(run) ==
    {OutcomeOfResults(VisitOrder(run.TaskRuns, order)) :
        order \in Orders(1..Len(run.TaskRuns))}

\* determineIfAllIntegrationPipelinesPassed with the flag assigned the
\* outcome of each run in turn, so that the last run decides.
determineByLastRun(integrationPipelineRuns) ==
    IF integrationPipelineRuns = <<>> THEN {[passed |-> TRUE, err |-> FALSE]}
    ELSE {[passed |-> last.outcome, err |-> last.err] :
             last \in calculateIntegrationPipelineRunOutcome(
                          integrationPipelineRuns[Len(integrationPipelineRuns)])}

\* determineIfAllIntegrationPipelinesPassed: every result the call can have.
RECURSIVE determineIfAllIntegrationPipelinesPassed(_)
determineIfAllIntegrationPipelinesPassed(integrationPipelineRuns) ==
    IF integrationPipelineRuns = <<>> THEN {[passed |-> TRUE, err |-> FALSE]}
    ELSE {IF first.err THEN [passed |-> FALSE, err |-> TRUE]
          ELSE IF rest.err THEN [passed |-> FALSE, err |-> TRUE]
          ELSE [passed |-> first.outcome /\ rest.passed, err |-> FALSE] :
             first \in calculateIntegrationPipelineRunOutcome(
                           Head(integrationPipelineRuns)),
             rest \in determineIfAllIntegrationPipelinesPassed(
                          Tail(integrationPipelineRuns))}

\* The loop of getLatestPipelineRunForApplicationSnapshotAndScenario over
\* the listed PipelineRuns: the latest found so far is replaced only by a
\* run that succeeded and completed after it.
RECURSIVE LatestOf(_, _)
LatestOf(items, latest) ==
    IF items = <<>> THEN latest
    ELSE LET pipelineRun == Head(items)
         IN  IF pipelineRun.succeeded
             THEN IF latest = NoRun THEN LatestOf(Tail(items), pipelineRun)
                  ELSE IF pipelineRun.time > latest.time
                       THEN LatestOf(Tail(items), pipelineRun)
                       ELSE LatestOf(Tail(items), latest)
             ELSE LatestOf(Tail(items), latest)

\* The PipelineRuns the List of
\* getLatestPipelineRunForApplicationSnapshotAndScenario matches.
MatchingRuns(snapshotName, scenarioName) ==
    {r \in runs : /\ r.type = "test"
                  /\ r.snapshot = snapshotName
                  /\ r.scenario = scenarioName}

\* getLatestPipelineRunForApplicationSnapshotAndScenario: every run the call
\* can return (NoRun: nil), the List returning its items in any order.
getLatestPipelineRunForApplicationSnapshotAndScenario(snapshotName, scenarioName) ==
    {LatestOf(items, NoRun) : items \in Orders(MatchingRuns(snapshotName, scenarioName))}

\* The branch of getAllPipelineRunsForApplicationSnapshot that needs no
\* store call: the scenario is the one the Adapter's own PipelineRun is
\* labelled with.
IsOwnScenario(run, scenarioName) == run.scenario = scenarioName

\* getAllPipelineRunsForApplicationSnapshot from scenario `next` on, up to
\* the next scenario that needs a List: the runs gathered and the index
\* reached.
RECURSIVE GatherOwn(_, _, _, _)
GatherOwn(run, required, next, resolved) ==
    IF next > Len(required) \/ ~IsOwnScenario(run, required[next])
    THEN [next |-> next, resolved |-> resolved]
    ELSE GatherOwn(run, required, next + 1, Append(resolved, run))

\* The completeness test with < for =: true of no handling.
MoreThanRequiredFound(integrationTestScenarios, integrationPipelineRuns) ==
    Len(integrationTestScenarios) < Len(integrationPipelineRuns)

\* The completeness test with >= for the exact equality of the counts, run
\* as soon as one PipelineRun is there.
AnyRequiredFound(integrationTestScenarios, integrationPipelineRuns) ==
    Len(integrationPipelineRuns) >= 1

\* Line 135: the number of PipelineRuns found is the number of required
\* scenarios.
AllRequiredFound(integrationTestScenarios, integrationPipelineRuns) ==
    Len(integrationTestScenarios) = Len(integrationPipelineRuns)

\* The Adapter `me` after the call `what` failed and the error was logged:
\* updateStatus is its next store call.
AfterFailure(me, what) ==
    [Idle EXCEPT !.pc = "updateStatus", !.op = me.op, !.run = me.run,
                 !.component = me.component, !.snapshot = me.snapshot,
                 !.err = what, !.ops = me.ops]

\* Lines 134-149 of EnsureApplicationSnapshotPassedAllTests, once every
\* required scenario has been visited: the states the Adapter can be in
\* before its next store call.
AfterGathering(me) ==
    IF ~AllRequiredFound(me.required, me.resolved)
    THEN {[Idle EXCEPT !.pc = "done", !.op = me.op, !.run = me.run,
                       !.snapshot = me.snapshot,
                       !.required = me.required, !.resolved = me.resolved,
                       !.result = ContinueProcessing, !.ops = me.ops]}
    ELSE {IF d.err
          THEN AfterFailure(me, "outcome")
          ELSE [me EXCEPT !.pc = "patch", !.passed = d.passed] :
             d \in determineIfAllIntegrationPipelinesPassed(me.resolved)}

\* The Adapter runs on from scenario me.next until its next store call.
Advance(me) ==
    LET g == GatherOwn(me.run, me.required, me.next, me.resolved)
        at == [me EXCEPT !.next = g.next, !.resolved = g.resolved]
    IN  IF g.next > Len(me.required)
        THEN AfterGathering(at)
        ELSE {[at EXCEPT !.pc = "listRuns"]}

\* ------------------------------------------------ the steps of a handling
\* The operation returns `res`; the Adapter's locals are dropped.
Finish(k, res, ops) ==
    h' = [h EXCEPT ![k] = [Idle EXCEPT !.pc = "done", !.op = h[k].op,
                                       !.run = h[k].run,
                                       !.component = h[k].component,
                                       !.snapshot = h[k].snapshot,
                                       !.err = h[k].err,
                                       !.result = res, !.ops = ops]]

ToUpdateStatus(k, what) == h' = [h EXCEPT ![k] = AfterFailure(h[k], what)]

\* EnsureApplicationSnapshotExists with the test of the kind after the
\* search for a matching Snapshot: the Components are listed first.
BuildSkipAfterList(k, run) ==
    /\ h[k].pc = "idle"
    /\ ~IsBuildPipelineRun(run)
    /\ run \in runs
    /\ \E ok \in BOOLEAN :
          h' = [h EXCEPT ![k] =
                   [Idle EXCEPT !.pc = "done", !.op = OpExists, !.run = run,
                                !.result = IF ok THEN ContinueProcessing
                                           ELSE RequeueWithError]]
    /\ UNCHANGED <<components, snapshots, scenarios, pool, runs, call, events>>

\* EnsureApplicationSnapshotExists on a PipelineRun that is not a build
\* PipelineRun (lines 67-69): it returns at once.
BuildSkip(k, run) ==
    /\ h[k].pc = "idle"
    /\ ~IsBuildPipelineRun(run)
    /\ run \in runs
    /\ h' = [h EXCEPT ![k] =
                [Idle EXCEPT !.pc = "done", !.op = OpExists, !.run = run,
                             !.result = ContinueProcessing]]
    /\ UNCHANGED <<components, snapshots, scenarios, pool, runs, call, events>>

\* EnsureApplicationSnapshotPassedAllTests on a PipelineRun that is not a
\* test PipelineRun (lines 102-104): it returns at once.
TestSkip(k, run) ==
    /\ h[k].pc = "idle"
    /\ ~IsIntegrationPipelineRun(run)
    /\ h' = [h EXCEPT ![k] =
                [Idle EXCEPT !.pc = "done", !.op = OpPassedAllTests, !.run = run,
                             !.result = ContinueProcessing]]
    /\ UNCHANGED <<components, snapshots, scenarios, pool, runs, call, events>>

\* The controller hands a build PipelineRun and its Component to a new
\* Adapter, which starts EnsureApplicationSnapshotExists: the first call of
\* findMatchingApplicationSnapshot is the List of the Components.
BuildFindPrepare(k, run) ==
    /\ h[k].pc = "idle"
    /\ IsBuildPipelineRun(run)
    /\ run.component \in DOMAIN components
    /\ \E ok \in BOOLEAN, applicationComponents \in ComponentListings :
          LET p == prepareApplicationSnapshotForPipelineRun(
                       run, run.component, applicationComponents)
              me == [h[k] EXCEPT !.op = OpExists, !.run = run,
                                 !.component = run.component]
          IN  IF ~ok \/ p.err
              THEN h' = [h EXCEPT ![k] =
                            [me EXCEPT !.pc = "done", !.result = RequeueWithError]]
              ELSE h' = [h EXCEPT ![k] =
                            [me EXCEPT !.pc = "findList", !.expected = p.snapshot]]
    /\ UNCHANGED <<components, snapshots, scenarios, pool, runs, call, events>>

\* findMatchingApplicationSnapshot: the List of the Snapshots and the
\* comparison with each of them.
BuildFindList(k) ==
    /\ h[k].pc = "findList"
    /\ \E ok \in BOOLEAN :
          IF ~ok
          THEN Finish(k, RequeueWithError, h[k].ops)
          ELSE IF findMatchingApplicationSnapshot(h[k].expected, snapshots) # 0
          THEN Finish(k, ContinueProcessing, h[k].ops)
          ELSE h' = [h EXCEPT ![k].pc = "createPrepare",
                              ![k].seen = Len(snapshots)]
    /\ UNCHANGED <<components, snapshots, scenarios, pool, runs, call, events>>

\* createApplicationSnapshotForPipelineRun: the second List of the
\* Components.
BuildCreatePrepare(k) ==
    /\ h[k].pc = "createPrepare"
    /\ \E ok \in BOOLEAN, applicationComponents \in ComponentListings :
          LET p == prepareApplicationSnapshotForPipelineRun(
                       h[k].run, h[k].component, applicationComponents)
          IN  IF ~ok \/ p.err
              THEN ToUpdateStatus(k, "create")
              ELSE h' = [h EXCEPT ![k].pc = "create", ![k].prepared = p.snapshot]
    /\ UNCHANGED <<components, snapshots, scenarios, pool, runs, call, events>>

\* createApplicationSnapshotForPipelineRun with a fixed name and an Update
\* when the name is taken: the Snapshot created last is replaced.
BuildCreateReplacing(k) ==
    /\ h[k].pc = "create"
    /\ Len(snapshots) < MaxSnapshots
    /\ \E ok \in BOOLEAN :
          IF ok
          THEN /\ snapshots' = IF snapshots = <<>> THEN <<h[k].prepared>>
                               ELSE [snapshots EXCEPT ![Len(snapshots)] =
                                                          h[k].prepared]
               /\ Finish(k, ContinueProcessing, h[k].ops \cup {"create"})
          ELSE /\ ToUpdateStatus(k, "create")
               /\ UNCHANGED snapshots
    /\ UNCHANGED <<components, scenarios, pool, runs, call, events>>

\* createApplicationSnapshotForPipelineRun: the Create.
BuildCreate(k) ==
    /\ h[k].pc = "create"
    /\ Len(snapshots) < MaxSnapshots
    /\ \E ok \in BOOLEAN :
          IF ok
          THEN /\ snapshots' = Append(snapshots, h[k].prepared)
               /\ Finish(k, ContinueProcessing, h[k].ops \cup {"create"})
          ELSE /\ ToUpdateStatus(k, "create")
               /\ UNCHANGED snapshots
    /\ UNCHANGED <<components, scenarios, pool, runs, call, events>>

\* The controller hands a completed test PipelineRun to a new Adapter, which
\* starts EnsureApplicationSnapshotPassedAllTests:
\* getApplicationSnapshotFromPipelineRun fails without a store call when the
\* PipelineRun has no snapshot label, and Gets the Snapshot otherwise.
StartPassedAllTests(k, run) ==
    /\ h[k].pc = "idle"
    /\ run \in runs
    /\ IsIntegrationPipelineRun(run)
    /\ LET me == [h[k] EXCEPT !.op = OpPassedAllTests, !.run = run]
           failed == [me EXCEPT !.pc = "done", !.result = RequeueWithError]
       IN  IF run.snapshot = 0
           THEN h' = [h EXCEPT ![k] = failed]
           ELSE \E ok \in BOOLEAN :
                   IF ~ok \/ run.snapshot \notin 1..Len(snapshots)
                   THEN h' = [h EXCEPT ![k] = failed]
                   ELSE h' = [h EXCEPT ![k] =
                                 [me EXCEPT !.pc = "listScenarios",
                                            !.snapshot = run.snapshot,
                                            !.condition =
                                                snapshots[run.snapshot].condition]]
    /\ UNCHANGED <<components, snapshots, scenarios, pool, runs, call>>

\* The handling of an event that the controller may deliver again
\* (delivery is at-least-once).
TestGetSnapshot(k, run) ==
    /\ StartPassedAllTests(k, run)
    /\ UNCHANGED events

\* The handling of an event that is delivered for the last time.
TestTakeEvent(k, run) ==
    /\ run \in events
    /\ StartPassedAllTests(k, run)
    /\ events' = events \ {run}

\* getRequiredIntegrationTestScenariosForApplication: the List of the
\* scenarios, in any order; the Adapter then runs on to its next store call.
TestListScenarios(k) ==
    /\ h[k].pc = "listScenarios"
    /\ \E ok \in BOOLEAN, integrationTestScenarios \in Orders(RequiredScenarios) :
          IF ~ok
          THEN Finish(k, RequeueWithError, h[k].ops)
          ELSE \E me \in Advance([h[k] EXCEPT !.required = integrationTestScenarios,
                                              !.next = 1, !.resolved = <<>>]) :
                  h' = [h EXCEPT ![k] = me]
    /\ UNCHANGED <<components, snapshots, scenarios, pool, runs, call, events>>

\* getLatestPipelineRunForApplicationSnapshotAndScenario for the scenario
\* the loop of getAllPipelineRunsForApplicationSnapshot has reached.
TestListRuns(k) ==
    /\ h[k].pc = "listRuns"
    /\ \E ok \in BOOLEAN :
          IF ~ok
          THEN ToUpdateStatus(k, "listRuns")
          ELSE \E integrationPipelineRun \in
                      getLatestPipelineRunForApplicationSnapshotAndScenario(
                          h[k].snapshot, h[k].required[h[k].next]) :
               \E me \in Advance([h[k] EXCEPT
                           !.next = @ + 1,
                           !.resolved = IF integrationPipelineRun = NoRun THEN @
                                        ELSE Append(@, integrationPipelineRun)]) :
                  h' = [h EXCEPT ![k] = me]
    /\ UNCHANGED <<components, snapshots, scenarios, pool, runs, call, events>>

\* meta.SetStatusCondition on the Adapter's copy of the Snapshot.
SetStatusCondition(condition, newCondition) == newCondition

\* client.MergeFrom: the patch is the difference between the Adapter's copy
\* as it was read and as it is now; no difference is an empty patch.
MergeFrom(original, modified) ==
    IF original = modified THEN [empty |-> TRUE, condition |-> NoCondition]
    ELSE [empty |-> FALSE, condition |-> modified]

\* The store replacing the conditions by those of the patch, as an Update of
\* the whole status would: an empty patch clears them.
ApplyPatchReplacing(snapshot, patch) ==
    [snapshot EXCEPT !.condition = patch.condition]

\* The store applies a patch to the conditions of a Snapshot.
ApplyPatch(snapshot, patch) ==
    IF patch.empty THEN snapshot
    ELSE [snapshot EXCEPT !.condition = patch.condition]

\* markSnapshotAsPassed / markSnapshotAsFailed: the condition they set.
MarkedCondition(passed) == IF passed THEN PassedCondition ELSE FailedCondition

\* markSnapshotAsPassed / markSnapshotAsFailed: the Status().Patch.
TestPatch(k) ==
    /\ h[k].pc = "patch"
    /\ \E ok \in BOOLEAN :
          IF ok
          THEN LET modified == SetStatusCondition(h[k].condition,
                                                  MarkedCondition(h[k].passed))
                   patch == MergeFrom(h[k].condition, modified)
               IN  /\ snapshots' =
                          [snapshots EXCEPT ![h[k].snapshot] = ApplyPatch(@, patch)]
                   /\ Finish(k, ContinueProcessing, h[k].ops \cup {"patch"})
          ELSE /\ ToUpdateStatus(k, "patch")
               /\ UNCHANGED snapshots
    /\ UNCHANGED <<components, scenarios, pool, runs, call, events>>

\* updateStatus with its outcome ignored: the primary error is returned with
\* RequeueWithError.
UpdateStatusThenRequeue(k) ==
    /\ h[k].pc = "updateStatus"
    /\ \E ok \in BOOLEAN :
          Finish(k, RequeueWithError,
                 IF ok THEN h[k].ops \cup {"status"} ELSE h[k].ops)
    /\ UNCHANGED <<components, snapshots, scenarios, pool, runs, call, events>>

\* updateStatus, and RequeueOnErrorOrStop of its outcome.
UpdateStatus(k) ==
    /\ h[k].pc = "updateStatus"
    /\ \E ok \in BOOLEAN :
          Finish(k, RequeueOnErrorOrStop(~ok),
                 IF ok THEN h[k].ops \cup {"status"} ELSE h[k].ops)
    /\ UNCHANGED <<components, snapshots, scenarios, pool, runs, call, events>>

\* The operation has returned; the worker takes the next event.
Return(k) ==
    /\ h[k].pc = "done"
    /\ h' = [h EXCEPT ![k] = Idle]
    /\ UNCHANGED <<components, snapshots, scenarios, pool, runs, call, events>>

\* Another actor records a new image on a Component.
UpdateComponent(c, d) ==
    /\ c \in DOMAIN components
    /\ components[c] # RecordedImage(c, d)
    /\ components' = [components EXCEPT ![c] = RecordedImage(c, d)]
    /\ UNCHANGED <<snapshots, scenarios, pool, runs, h, call, events>>

\* A test PipelineRun completes: the pipeline engine records it in the
\* store, and the controller is sent its event.
CompleteRun(run) ==
    /\ run \in pool
    /\ pool' = pool \ {run}
    /\ runs' = runs \cup {run}
    /\ events' = events \cup {run}
    /\ UNCHANGED <<components, snapshots, scenarios, h, call>>

\* ----------------------------------------------------------- specifications
\* Build events: concurrent handlings of build PipelineRuns of an
\* Application that has no Snapshot yet, while the images recorded on its
\* Components change.
Init ==
    /\ components \in [CompNames -> UNION {RecordedImages(c) : c \in CompNames}]
    /\ \A c \in CompNames : components[c] \in RecordedImages(c)
    /\ snapshots = <<>>
    /\ scenarios = [s \in ScenarioNames |-> "absent"]
    /\ pool = {}
    /\ runs = {}
    /\ h = [k \in Handlers |-> Idle]
    /\ call = NoCall
    /\ events = {}

BuildStep(k) ==
    \/ \E run \in BuildRuns : BuildFindPrepare(k, run)
    \/ BuildFindList(k)
    \/ BuildCreatePrepare(k)
    \/ BuildCreate(k)
    \/ UpdateStatus(k)
    \/ Return(k)

Next ==
    \/ \E k \in Handlers : BuildStep(k)
    \/ \E c \in CompNames : \E d \in Digests(c) : UpdateComponent(c, d)

Spec == Init /\ [][Next]_vars

\* Test events: one worker's handlings of completed test PipelineRuns of an
\* Application with two Snapshots, while further test PipelineRuns complete.
\* The scenarios of the Application: S1 without the optional label or not
\* defined ("absent"), S2 labelled optional "true" or "false".
ScenarioStores ==
    {sc \in [ScenarioNames -> {"absent", "", "true", "false"}] :
        /\ sc["S1"] \in {"absent", ""}
        /\ sc["S2"] \in {"true", "false"}}

SnapshotOf(a, b, c) ==
    [Application |-> AppName,
     Components |-> <<[Name |-> "A", ContainerImage |-> RecordedImage("A", a)],
                      [Name |-> "B", ContainerImage |-> RecordedImage("B", b)]>>,
     component |-> c, condition |-> NoCondition]

InitTest ==
    /\ components = [c \in CompNames |-> RecordedImage(c, "sha1")]
    /\ snapshots = <<SnapshotOf("sha1", "sha1", "A"), SnapshotOf("sha2", "sha1", "A")>>
    /\ scenarios \in ScenarioStores
    /\ pool = TestRuns
    /\ runs = {}
    /\ h = [k \in Handlers |-> Idle]
    /\ call = NoCall
    /\ events = {}

TestStep(k) ==
    \/ \E run \in TestRuns : TestGetSnapshot(k, run)
    \/ TestListScenarios(k)
    \/ TestListRuns(k)
    \/ TestPatch(k)
    \/ UpdateStatus(k)
    \/ Return(k)

NextTest ==
    \/ TestStep("w1")
    \/ \E run \in TestRuns : CompleteRun(run)

SpecTest == InitTest /\ [][NextTest]_vars

\* Test events handled by two workers at once: the handlings of three test
\* PipelineRuns of Snapshot 1 (a passing run of S1, a later failing run of
\* S1, a passing run of S2), redeliveries included.
VerdictRuns ==
    {TestRun("S1", 1, TRUE, 1, PassingTaskRuns),
     TestRun("S1", 1, TRUE, 2, FailingTaskRuns),
     TestRun("S2", 1, TRUE, 1, PassingTaskRuns)}

InitVerdict ==
    /\ components = [c \in CompNames |-> RecordedImage(c, "sha1")]
    /\ snapshots = <<SnapshotOf("sha1", "sha1", "A"), SnapshotOf("sha2", "sha1", "A")>>
    /\ scenarios \in ScenarioStores
    /\ pool = VerdictRuns
    /\ runs = {}
    /\ h = [k \in Handlers |-> Idle]
    /\ call = NoCall
    /\ events = {}

NextVerdict ==
    \/ \E k \in Handlers : TestStep(k)
    \/ \E run \in TestRuns : CompleteRun(run)

SpecVerdict == InitVerdict /\ [][NextVerdict]_vars

\* Test events with no store failure, each handled once by one worker, which
\* takes a step whenever it can.  At least one scenario is required; the test
\* PipelineRuns of Snapshot 1 that complete are any of five (a succeeded and a
\* failed run of S1, a succeeded and a failed run of S2, a succeeded run of S2
\* whose task result is not JSON).
LiveRuns ==
    {TestRun("S1", 1, TRUE, 1, PassingTaskRuns),
     TestRun("S1", 1, FALSE, 2, FailingTaskRuns),
     TestRun("S2", 1, TRUE, 1, FailingTaskRuns),
     TestRun("S2", 1, FALSE, 2, PassingTaskRuns),
     TestRun("S2", 1, TRUE, 2, MalformedTaskRuns)}

InitLive ==
    /\ components = [c \in CompNames |-> RecordedImage(c, "sha1")]
    /\ snapshots = <<SnapshotOf("sha1", "sha1", "A"), SnapshotOf("sha2", "sha1", "A")>>
    /\ scenarios \in {sc \in ScenarioStores : sc["S1"] = "" \/ sc["S2"] = "true"}
    /\ pool \in SUBSET LiveRuns
    /\ runs = {}
    /\ h = [k \in Handlers |-> Idle]
    /\ call = NoCall
    /\ events = {}

\* The step of handling k did not end in the failure of a store call.
NoStoreFailure(k) ==
    /\ h'[k].err \in {"", "outcome"}
    /\ h'[k].result \notin {RequeueWithError, RequeueOnErrorOrStop(TRUE)}

LiveStep(k) ==
    /\ \/ \E run \in LiveRuns : TestTakeEvent(k, run)
       \/ TestListScenarios(k)
       \/ TestListRuns(k)
       \/ TestPatch(k)
       \/ UpdateStatus(k)
       \/ Return(k)
    /\ NoStoreFailure(k)

NextLive ==
    \/ LiveStep("w1")
    \/ \E run \in LiveRuns : CompleteRun(run)

SpecLive ==
    /\ InitLive
    /\ [][NextLive]_vars
    /\ WF_vars(LiveStep("w1"))

\* Both operations on PipelineRuns of both kinds: the controller runs
\* either operation on a build PipelineRun or on a completed test
\* PipelineRun, in an Application that has no Snapshot yet and requires
\* scenarios S1 and S2.
BothRuns ==
    {TestRun("S1", 1, TRUE, 1, PassingTaskRuns),
     TestRun("S2", 1, TRUE, 1, PassingTaskRuns)}

InitBoth ==
    /\ components = [c \in CompNames |-> RecordedImage(c, "sha1")]
    /\ snapshots = <<>>
    /\ scenarios = [s \in ScenarioNames |-> IF s = "S1" THEN "" ELSE "true"]
    /\ pool = BothRuns
    /\ runs = {}
    /\ h = [k \in Handlers |-> Idle]
    /\ call = NoCall
    /\ events = {}

BothStep(k) ==
    \/ \E run \in TestRuns : BuildSkip(k, run)
    \/ \E run \in BuildRuns : TestSkip(k, run)
    \/ BuildStep(k)
    \/ TestStep(k)

NextBoth ==
    \/ \E k \in Handlers : BothStep(k)
    \/ \E run \in TestRuns : CompleteRun(run)

SpecBoth == InitBoth /\ [][NextBoth]_vars

\* Build events of one worker, among them the build of Component B pushed to
\* a registry that is named with its port (registry:5000/r/b:latest).
RegistryRuns ==
    {BuildRun("B", <<"registry", ":", "5000/r/b", ":", "latest">>, "sha1")}

ImageStep(k) ==
    \/ \E run \in RegistryRuns : BuildFindPrepare(k, run)
    \/ BuildStep(k)

NextImage ==
    \/ ImageStep("w1")
    \/ \E c \in CompNames : \E d \in Digests(c) : UpdateComponent(c, d)

SpecImage == Init /\ [][NextImage]_vars

\* Build events handled one at a time: a handling starts only when no other
\* is under way, and the Components change only between handlings that have
\* returned.

NextSeq ==
    \/ \E k \in Handlers :
          /\ \A j \in Handlers \ {k} : h[j].pc \in {"idle", "done"}
          /\ BuildStep(k)
    \/ /\ \A k \in Handlers : h[k].pc = "idle"
       /\ \E c \in CompNames : \E d \in Digests(c) : UpdateComponent(c, d)

SpecSeq == Init /\ [][NextSeq]_vars

\* Calls of compareApplicationSnapshots on two Snapshots whose component
\* lists are any lists of at most MaxLen entries, repeated entries included.
Entries ==
    {[Name |-> "A", ContainerImage |-> RecordedImage("A", "sha1")],
     [Name |-> "A", ContainerImage |-> RecordedImage("A", "sha2")],
     [Name |-> "B", ContainerImage |-> RecordedImage("B", "sha1")]}
ComponentLists == UNION {[1..n -> Entries] : n \in 0..MaxLen}
SnapshotWith(list) == [NoSnapshot EXCEPT !.Components = list]
Reorderings(list) ==
    {[i \in 1..Len(list) |-> list[p[i]]] : p \in Orders(1..Len(list))}
CallOf(expected, found) ==
    [expected |-> expected, found |-> found, returned |-> TRUE,
     result |-> compareApplicationSnapshots(SnapshotWith(expected),
                                            SnapshotWith(found))]

InitCompare ==
    /\ components = [c \in CompNames |-> RecordedImage(c, "sha1")]
    /\ snapshots = <<>>
    /\ scenarios = [s \in ScenarioNames |-> "absent"]
    /\ pool = {}
    /\ runs = {}
    /\ h = [k \in Handlers |-> Idle]
    /\ call \in {[NoCall EXCEPT !.expected = x, !.found = y] :
                    x \in ComponentLists, y \in ComponentLists}
    /\ events = {}

\* compareApplicationSnapshots(expected, found) returns.
Compare ==
    /\ ~call.returned
    /\ call' = CallOf(call.expected, call.found)
    /\ UNCHANGED <<components, snapshots, scenarios, pool, runs, h, events>>

\* The same call with the component lists in another order.
CompareReordered ==
    /\ call.returned
    /\ \E x \in Reorderings(call.expected), y \in Reorderings(call.found) :
          call' = CallOf(x, y)
    /\ UNCHANGED <<components, snapshots, scenarios, pool, runs, h, events>>

\* The same call with the two Snapshots exchanged.
CompareSwapped ==
    /\ call.returned
    /\ call' = CallOf(call.found, call.expected)
    /\ UNCHANGED <<components, snapshots, scenarios, pool, runs, h, events>>

NextCompare == Compare \/ CompareReordered \/ CompareSwapped

SpecCompare == InitCompare /\ [][NextCompare]_vars

\* Test events of two Snapshots that have the same completed test
\* PipelineRuns (a passing run of S1, a later failing run of S1, a passing
\* run of S2, all succeeded): every PipelineRun has completed before the
\* first event is handled, each event is handled once, one handling at a
\* time, in any order, and no store call fails.
OrderRunsOf(snapshotName) ==
    {TestRun("S1", snapshotName, TRUE, 1, PassingTaskRuns),
     TestRun("S1", snapshotName, TRUE, 2, FailingTaskRuns),
     TestRun("S2", snapshotName, TRUE, 1, PassingTaskRuns)}
OrderRuns == OrderRunsOf(1) \cup OrderRunsOf(2)

InitOrder ==
    /\ components = [c \in CompNames |-> RecordedImage(c, "sha1")]
    /\ snapshots = <<SnapshotOf("sha1", "sha1", "A"), SnapshotOf("sha2", "sha1", "A")>>
    /\ scenarios = [s \in ScenarioNames |-> IF s = "S1" THEN "" ELSE "true"]
    /\ pool = {}
    /\ runs = OrderRuns
    /\ h = [k \in Handlers |-> Idle]
    /\ call = NoCall
    /\ events = OrderRuns

OrderStep(k) ==
    /\ \/ \E run \in OrderRuns : TestTakeEvent(k, run)
       \/ TestListScenarios(k)
       \/ TestListRuns(k)
       \/ TestPatch(k)
       \/ Return(k)
    /\ NoStoreFailure(k)

NextOrder == OrderStep("w1")

SpecOrder == InitOrder /\ [][NextOrder]_vars

\* ------------------------------- calculateIntegrationPipelineRunOutcome alone
\* The task results a TaskRun may carry: HACBS_TEST_OUTPUT with each of the
\* values, and a result of another name whose value is not JSON.
OtherResult == [Name |-> "IMAGE_URL", Value |-> NotJson]
TaskRunResultValues ==
    {Output(JsonSuccess), Output(JsonSkipped), Output(JsonFailure),
     Output(JsonNoResult), Output(NotJson), OtherResult}
\* The result lists of a TaskRun: none, one result, or two results of which
\* the first lets the loop go on to the second.
TaskRunResultLists ==
    {<<>>} \cup {<<x>> : x \in TaskRunResultValues}
           \cup {<<x, y>> : x \in {Output(JsonSuccess), Output(JsonSkipped),
                                    OtherResult},
                            y \in TaskRunResultValues}

\* The TaskRuns maps of at most MaxTaskRuns TaskRuns.
TaskRunsOfLength(n) ==
    {[i \in 1..n |-> TaskRun("t", f[i])] : f \in [1..n -> TaskRunResultLists]}
TaskRunMaps == UNION {TaskRunsOfLength(n) : n \in 0..MaxTaskRuns}

\* A call calculateIntegrationPipelineRunOutcome(pipelineRun) that has not
\* returned.
OutcomeCallOf(run) ==
    [run |-> run, returned |-> FALSE, outcome |-> FALSE, err |-> FALSE]

InitOutcome ==
    /\ components = [c \in CompNames |-> RecordedImage(c, "sha1")]
    /\ snapshots = <<>>
    /\ scenarios = [s \in ScenarioNames |-> "absent"]
    /\ pool = {}
    /\ runs = {}
    /\ h = [k \in Handlers |-> Idle]
    /\ call \in {OutcomeCallOf(TestRun("S1", 1, succ, 1, taskRuns)) :
                    succ \in BOOLEAN, taskRuns \in TaskRunMaps}
    /\ events = {}

\* calculateIntegrationPipelineRunOutcome(pipelineRun) returns.
Calculate ==
    /\ ~call.returned
    /\ \E o \in calculateIntegrationPipelineRunOutcome(call.run) :
          call' = [call EXCEPT !.returned = TRUE, !.outcome = o.outcome,
                               !.err = o.err]
    /\ UNCHANGED <<components, snapshots, scenarios, pool, runs, h, events>>

NextOutcome == Calculate

SpecOutcome == InitOutcome /\ [][NextOutcome]_vars

\* ----------------------------- markSnapshotAsPassed / markSnapshotAsFailed alone
\* The verdict write with what the store keeps beside the verdict: the
\* LastTransitionTime of the condition and the resourceVersion of the
\* Snapshot.  LastTransitionTime 0: the Snapshot has no condition.
ConditionAt(condition, t) ==
    [Status |-> condition.Status, Reason |-> condition.Reason,
     Message |-> condition.Message, LastTransitionTime |-> t]

\* meta.SetStatusCondition at time `now`: a condition that is new, or whose
\* Status changes, gets LastTransitionTime now; Reason and Message are
\* overwritten.
SetStatusConditionAt(existing, newCondition, now) ==
    IF existing.LastTransitionTime = 0 \/ existing.Status # newCondition.Status
    THEN ConditionAt(newCondition, now)
    ELSE ConditionAt(newCondition, existing.LastTransitionTime)

\* Status().Patch of the patch client.MergeFrom makes (lines 461, 468; 479,
\* 486): the patch carries no resourceVersion; the store replaces the
\* conditions, and an object that comes out as it was is not written.
PatchStatus(stored, patch) ==
    IF patch.empty \/ patch.condition = stored.condition THEN stored
    ELSE [condition |-> patch.condition,
          resourceVersion |-> stored.resourceVersion + 1]

\* markSnapshotAsPassed / markSnapshotAsFailed on the Adapter's copy `copy`
\* at time `now`: the Snapshot the store holds afterwards.
MarkSnapshot(stored, copy, passed, now) ==
    LET modified == SetStatusConditionAt(copy, MarkedCondition(passed), now)
    IN  PatchStatus(stored, MergeFrom(copy, modified))

\* The Snapshot an Adapter marks: what the store holds, the Adapter's copy,
\* the verdict the Adapter writes, the clock, and the number of
\* markSnapshotAs... calls of this Adapter and of another one.
MarkCallOf(condition, passed) ==
    [stored |-> [condition |-> condition, resourceVersion |-> 1],
     copy |-> condition, passed |-> passed, now |-> 1, pc |-> "read",
     marks |-> 0, others |-> 0]

InitMark ==
    /\ components = [c \in CompNames |-> RecordedImage(c, "sha1")]
    /\ snapshots = <<>>
    /\ scenarios = [s \in ScenarioNames |-> "absent"]
    /\ pool = {}
    /\ runs = {}
    /\ h = [k \in Handlers |-> Idle]
    /\ call \in {MarkCallOf(condition, passed) :
                    condition \in {ConditionAt(NoCondition, 0),
                                   ConditionAt(PassedCondition, 1),
                                   ConditionAt(FailedCondition, 1)},
                    passed \in BOOLEAN}
    /\ events = {}

\* The Adapter's markSnapshotAsPassed / markSnapshotAsFailed call.
Mark ==
    /\ call.pc = "read"
    /\ \E ok \in BOOLEAN :
          call' = [call EXCEPT
                      !.stored = IF ok THEN MarkSnapshot(call.stored, call.copy,
                                                        call.passed, call.now)
                                 ELSE @,
                      !.pc = "marked", !.marks = @ + 1]
    /\ UNCHANGED <<components, snapshots, scenarios, pool, runs, h, events>>

\* The same event is handled again: the Snapshot is read anew.
MarkReread ==
    /\ call.pc = "marked"
    /\ call.marks < 2
    /\ call' = [call EXCEPT !.copy = call.stored.condition, !.pc = "read"]
    /\ UNCHANGED <<components, snapshots, scenarios, pool, runs, h, events>>

\* Another Adapter, which has just read the Snapshot, marks it.
MarkByAnother ==
    /\ call.others < 1
    /\ \E passed \in BOOLEAN :
          call' = [call EXCEPT
                      !.stored = MarkSnapshot(call.stored, call.stored.condition,
                                              passed, call.now),
                      !.others = @ + 1]
    /\ UNCHANGED <<components, snapshots, scenarios, pool, runs, h, events>>

\* A second passes.
MarkTick ==
    /\ call.now < MaxNow
    /\ call' = [call EXCEPT !.now = @ + 1]
    /\ UNCHANGED <<components, snapshots, scenarios, pool, runs, h, events>>

NextMark == Mark \/ MarkReread \/ MarkByAnother \/ MarkTick

SpecMark == InitMark /\ [][NextMark]_vars

\* ------------------------------------------------------------------ claims
\* The unordered component-to-image combination of a component list.
Combination(list) == Range(list)

\* The image a build PipelineRun produced, and the combination its event
\* asks for while the Components are as they are now.
ProducedImage(run) == <<Repo[run.component], "@", run.digest>>
DesiredCombination(run) ==
    {[Name |-> c,
      ContainerImage |-> IF c = run.component THEN ProducedImage(run)
                         ELSE components[c]] : c \in DOMAIN components}
SnapshotsWith(combination) ==
    {i \in 1..Len(snapshots) : Combination(snapshots[i].Components) = combination}

\* C1: when the same build-completion event has been handled twice, one
\* handling after the other, with the Components unchanged, and a handling
\* returned Continue, the store holds exactly one Snapshot with the event's
\* image combination and at most one of the two handlings issued a Create.
C1_IdempotentCreation ==
    \A k1 \in Handlers, k2 \in Handlers :
        (/\ k1 # k2
         /\ h[k1].pc = "done" /\ h[k2].pc = "done"
         /\ h[k1].run = h[k2].run
         /\ IsBuildPipelineRun(h[k1].run)
         /\ (h[k1].result = ContinueProcessing \/ h[k2].result = ContinueProcessing))
        => /\ Cardinality(SnapshotsWith(DesiredCombination(h[k1].run))) = 1
           /\ ~("create" \in h[k1].ops /\ "create" \in h[k2].ops)

\* C1 witness: both handlings of one build event returned Continue, the
\* first created the Snapshot and the second found it.
C1_Witness ==
    \E k1 \in Handlers, k2 \in Handlers :
        /\ k1 # k2
        /\ h[k1].pc = "done" /\ h[k2].pc = "done"
        /\ h[k1].run = h[k2].run
        /\ IsBuildPipelineRun(h[k1].run)
        /\ h[k1].result = ContinueProcessing /\ h[k2].result = ContinueProcessing
        /\ "create" \in h[k1].ops /\ "create" \notin h[k2].ops
        /\ Cardinality(SnapshotsWith(DesiredCombination(h[k1].run))) = 1

\* C2 as claimed: in every reachable state no two Snapshots of the
\* Application have the same unordered component-to-image combination.
C2_AtMostOnePerCombination ==
    \A i \in 1..Len(snapshots), j \in 1..Len(snapshots) :
        i # j => Combination(snapshots[i].Components)
                     # Combination(snapshots[j].Components)

\* C2 as amended: a Create never adds a Snapshot with the combination of a
\* Snapshot that was in the store when the creating handling listed the
\* Snapshots, unless the Components changed between the handling's two
\* listings of them (the created combination is not the one it looked for).
C2_NoDuplicateOfListedSnapshot ==
    [][\A k \in Handlers :
          (/\ h[k].pc = "create"
           /\ h'[k].pc = "done"
           /\ Len(snapshots') = Len(snapshots) + 1)
          => LET created == snapshots'[Len(snapshots')]
             IN  Combination(created.Components)
                     = Combination(h[k].expected.Components)
                 => \A i \in 1..h[k].seen :
                       Combination(snapshots'[i].Components)
                           # Combination(created.Components)]_vars

\* C2 witness: a handling created a second Snapshot, with a combination the
\* store did not hold.
C2_Witness ==
    /\ Len(snapshots) = 2
    /\ Combination(snapshots[1].Components) # Combination(snapshots[2].Components)
    /\ \E k \in Handlers : h[k].pc = "done" /\ "create" \in h[k].ops

\* C3: a handling never holds more resolved PipelineRuns than required
\* scenarios; it reaches the verdict patch only with as many resolved runs as
\* required scenarios; and one that found the two numbers different returned
\* Continue without having written anything.
C3_CompletenessGating ==
    \A k \in Handlers :
        /\ Len(h[k].resolved) <= Len(h[k].required)
        /\ h[k].pc = "patch" => Len(h[k].resolved) = Len(h[k].required)
        /\ (h[k].pc = "done" /\ Len(h[k].resolved) # Len(h[k].required))
           => (h[k].result = ContinueProcessing /\ h[k].ops = {})

\* C3 witness: two scenarios were required, one PipelineRun was resolved, and
\* the handling returned Continue.
C3_Witness ==
    \E k \in Handlers :
        /\ h[k].pc = "done"
        /\ Len(h[k].required) = 2 /\ Len(h[k].resolved) = 1
        /\ h[k].result = ContinueProcessing /\ h[k].ops = {}

\* A run passes when every HACBS_TEST_OUTPUT result of it reads SUCCESS or
\* SKIPPED; its results parse when each of them is a JSON document.
OutputsOf(run) ==
    UNION {{run.TaskRuns[i].TaskRunResults[j].Value :
               j \in {j \in 1..Len(run.TaskRuns[i].TaskRunResults) :
                         run.TaskRuns[i].TaskRunResults[j].Name
                             = "HACBS_TEST_OUTPUT"}} :
           i \in 1..Len(run.TaskRuns)}
RunPasses(run) == OutputsOf(run) \subseteq {JsonSuccess, JsonSkipped}
RunParses(run) ==
    OutputsOf(run) \subseteq {JsonSuccess, JsonSkipped, JsonFailure, JsonNoResult}
VerdictOf(resolved) ==
    IF \A i \in 1..Len(resolved) : RunPasses(resolved[i])
    THEN PassedCondition ELSE FailedCondition

Added(k) ==
    {h'[k].resolved[i] : i \in (Len(h[k].resolved) + 1)..Len(h'[k].resolved)}
SucceededRuns(snapshotName, scenarioName) ==
    {r \in runs : /\ r.type = "test" /\ r.snapshot = snapshotName
                  /\ r.scenario = scenarioName /\ r.succeeded}
HasTwoTimes(S) == \E a \in S, b \in S : a.time # b.time
IsLatestOf(r, S) == r \in S /\ \A x \in S : x.time <= r.time

\* C5 as claimed: whenever a handling resolves a scenario for which succeeded
\* runs with different completion times exist, the run it uses is a succeeded
\* run with the latest completion time, the triggering run's own scenario
\* included.
C5_LatestWins ==
    [][\A k \in Handlers :
          (h'[k].pc \in {"listRuns", "patch", "updateStatus", "done"}
           /\ h[k].pc \in {"listScenarios", "listRuns"})
          => \A r \in Added(k) :
                LET S == SucceededRuns(h[k].snapshot, r.scenario)
                IN  HasTwoTimes(S) => IsLatestOf(r, S)]_vars

\* C6: a call of compareApplicationSnapshots returns true for a Snapshot and
\* any reordering of its component list, and returns the same for every
\* reordering of the component lists of its two arguments.
C6_OrderIndependentMatching ==
    call.returned =>
        /\ \A p \in Reorderings(call.expected) :
              compareApplicationSnapshots(SnapshotWith(call.expected),
                                          SnapshotWith(p))
        /\ \A p \in Reorderings(call.expected), q \in Reorderings(call.found) :
              compareApplicationSnapshots(SnapshotWith(p), SnapshotWith(q))
                  = call.result

\* C6 witness: the call compared [A, B] with [B, A] and returned true.
C6_Witness ==
    /\ call.returned
    /\ Len(call.expected) = 2
    /\ call.expected[1] # call.expected[2]
    /\ call.found = <<call.expected[2], call.expected[1]>>
    /\ call.result

\* C7 as claimed: compareApplicationSnapshots(x, y) equals
\* compareApplicationSnapshots(y, x) for all component lists.
C7_SymmetricMatching ==
    call.returned =>
        call.result = compareApplicationSnapshots(SnapshotWith(call.found),
                                                  SnapshotWith(call.expected))

\* C8 as claimed: the handling of a test PipelineRun without a snapshot label
\* ends without asking for the event again, after a status write.
C8_NoSnapshotReferenceIsPermanent ==
    \A k \in Handlers :
        (/\ h[k].pc = "done"
         /\ IsIntegrationPipelineRun(h[k].run)
         /\ h[k].run.snapshot = 0)
        => (~Redelivered(h[k].result) /\ "status" \in h[k].ops)

\* C9 as claimed: a handling whose verdict patch failed returns a result that
\* has the event delivered again, whatever became of the status write.
C9_PatchFailureIsRedelivered ==
    \A k \in Handlers :
        (h[k].pc = "done" /\ h[k].err = "patch") => Redelivered(h[k].result)

\* C10: a handling whose createApplicationSnapshotForPipelineRun failed has
\* added no Snapshot; it returns RequeueOnErrorOrStop of the status write: it
\* asks for the event again exactly when the status write failed.
C10_CreateFailureIsRetryOrStop ==
    /\ [](\A k \in Handlers :
             /\ (h[k].err = "create" /\ h[k].pc \in {"updateStatus", "done"})
                => "create" \notin h[k].ops
             /\ (h[k].err = "create" /\ h[k].pc = "done")
                => /\ h[k].result.CancelRequest
                   /\ ~h[k].result.RequeueRequest
                   /\ Redelivered(h[k].result) <=> "status" \notin h[k].ops)
    /\ [][\A k \in Handlers :
             (h[k].pc \in {"createPrepare", "create"} /\ h'[k].err = "create")
             => (snapshots' = snapshots /\ h'[k].pc = "updateStatus")]_vars

\* C10 witness: the Create failed, the status write succeeded, and the
\* handling stopped without an error.
C10_Witness ==
    \E k \in Handlers :
        /\ h[k].pc = "done"
        /\ h[k].err = "create"
        /\ h[k].result = RequeueOnErrorOrStop(FALSE)
        /\ h[k].ops = {"status"}

\* C11 as claimed: a handling whose aggregation hit a task result that is
\* not JSON has written no verdict and returns a result that has the event
\* delivered again.
C11_MalformedJsonIsRedelivered ==
    \A k \in Handlers :
        (h[k].pc = "done" /\ h[k].err = "outcome")
        => ("patch" \notin h[k].ops /\ Redelivered(h[k].result))

\* The Snapshots that carry a verdict.
WithVerdict == {i \in 1..Len(snapshots) : snapshots[i].condition # NoCondition}

\* C12 as claimed: once a Snapshot carries the verdict Passed or Failed, no
\* step changes its verdict.
C12_VerdictSetOnce ==
    [][\A i \in WithVerdict :
          snapshots'[i].condition = snapshots[i].condition]_vars

\* C12 as amended: once a Snapshot carries the verdict Passed or Failed, it
\* carries Passed or Failed ever after: never Unknown again.
C12_VerdictNeverUnset ==
    [][\A i \in WithVerdict :
          snapshots'[i].condition \in {PassedCondition, FailedCondition}]_vars

\* C12 witness: two handlings of different test PipelineRuns have each
\* patched Snapshot 1, the later one when it carried a verdict already.
C12_Witness ==
    /\ 1 \in WithVerdict
    /\ \A k \in Handlers :
          /\ h[k].pc = "done"
          /\ h[k].snapshot = 1
          /\ "patch" \in h[k].ops
    /\ h["w1"].run # h["w2"].run

\* The completed test PipelineRuns of Snapshot 1 and scenario s.
CompletedRuns(s) == {r \in runs : r.snapshot = 1 /\ r.scenario = s}

\* C13 as claimed: when every required scenario has a completed test
\* PipelineRun for Snapshot 1, its events are handled and no store call
\* fails, Snapshot 1 eventually carries a verdict.
C13_EventualVerdict ==
    (\A s \in RequiredScenarios : CompletedRuns(s) # {})
        ~> (1 \in WithVerdict)

\* C13 as amended: the same when at least one scenario is required, every
\* required scenario has a completed run whose Succeeded condition is true,
\* and the task results of every run that completes are JSON.
C13_EventualVerdictOfSucceededRuns ==
    (/\ RequiredScenarios # {}
     /\ \A s \in RequiredScenarios : \E r \in CompletedRuns(s) : r.succeeded
     /\ \A r \in runs \cup pool : RunParses(r))
        ~> (1 \in WithVerdict)

\* C13 witness: two scenarios are required, each has a succeeded run, every
\* event has been handled and Snapshot 1 carries a verdict.
C13_Witness ==
    /\ Cardinality(RequiredScenarios) = 2
    /\ \A s \in RequiredScenarios : \E r \in CompletedRuns(s) : r.succeeded
    /\ \A r \in runs \cup pool : RunParses(r)
    /\ events = {}
    /\ runs # {}
    /\ 1 \in WithVerdict

\* The operation of the Adapter `me` is not the one for the kind of its
\* PipelineRun.
WrongKind(me) ==
    \/ me.op = OpExists /\ ~IsBuildPipelineRun(me.run)
    \/ me.op = OpPassedAllTests /\ ~IsIntegrationPipelineRun(me.run)

\* C14: an operation started on a PipelineRun of the other kind has returned
\* Continue with its first step, whatever the store would have answered, and
\* the step wrote nothing and changed nothing in the store.
C14_KindGating ==
    [][\A k \in Handlers :
          (h[k].pc = "idle" /\ h'[k].pc # "idle" /\ WrongKind(h'[k]))
          => /\ h'[k].pc = "done"
             /\ h'[k].result = ContinueProcessing
             /\ h'[k].ops = {}
             /\ UNCHANGED <<components, snapshots, scenarios, runs>>]_vars

\* C14 witness: EnsureApplicationSnapshotExists has returned Continue on a
\* test PipelineRun and EnsureApplicationSnapshotPassedAllTests on a build
\* PipelineRun.
C14_Witness ==
    \E k1 \in Handlers, k2 \in Handlers :
        /\ h[k1].pc = "done" /\ h[k1].op = OpExists
        /\ IsIntegrationPipelineRun(h[k1].run)
        /\ h[k1].result = ContinueProcessing /\ h[k1].ops = {}
        /\ h[k2].pc = "done" /\ h[k2].op = OpPassedAllTests
        /\ IsBuildPipelineRun(h[k2].run)
        /\ h[k2].result = ContinueProcessing /\ h[k2].ops = {}

\* C15: no step removes a Snapshot or changes the application or the
\* components of one; a step of EnsureApplicationSnapshotPassedAllTests adds
\* no Snapshot and changes at most the condition of the Snapshot its
\* PipelineRun names.
C15_SnapshotImmutability ==
    [][/\ Len(snapshots') >= Len(snapshots)
       /\ \A i \in 1..Len(snapshots) :
             /\ snapshots'[i].Application = snapshots[i].Application
             /\ snapshots'[i].Components = snapshots[i].Components
             /\ snapshots'[i].component = snapshots[i].component
       /\ \A k \in Handlers :
             (h'[k] # h[k] /\ OpPassedAllTests \in {h[k].op, h'[k].op})
             => /\ Len(snapshots') = Len(snapshots)
                /\ \A i \in 1..Len(snapshots) :
                      snapshots'[i] # snapshots[i] => i = h[k].run.snapshot]_vars

\* C15 witness: two Snapshots exist, the first one created before the second
\* and since given a verdict by the handling of a test PipelineRun.
C15_Witness ==
    /\ Len(snapshots) = 2
    /\ 1 \in WithVerdict
    /\ \E k \in Handlers :
          /\ h[k].pc = "done" /\ h[k].op = OpPassedAllTests
          /\ h[k].snapshot = 1 /\ "patch" \in h[k].ops
    /\ \E k \in Handlers :
          /\ h[k].pc = "done" /\ h[k].op = OpExists
          /\ "create" \in h[k].ops

\* C16 as claimed: a handling writes a verdict only when every run it
\* resolved a required scenario with has a Succeeded condition that is true.
C16_VerdictOnlyFromSucceededRuns ==
    [][\A k \in Handlers :
          (h[k].pc = "patch" /\ "patch" \in h'[k].ops)
          => \A i \in 1..Len(h[k].resolved) : h[k].resolved[i].succeeded]_vars

\* C17 as claimed: compareApplicationSnapshots returns true exactly when the
\* two component lists have the same number of entries and every entry of
\* each list occurs in the other.
C17_SetEquality ==
    call.returned =>
        (call.result <=> /\ Len(call.expected) = Len(call.found)
                         /\ Range(call.expected) = Range(call.found))

\* The image a build PipelineRun produced: its output image without the
\* tag, at the digest of the build.
WithoutTag(image) ==
    IF Len(image) >= 3 /\ image[Len(image) - 1] = ":"
    THEN SubSeq(image, 1, Len(image) - 2)
    ELSE image
BuiltImage(run) == WithoutTag(run.outputImage) \o <<"@", run.digest>>

\* The component list has one entry for each Component of the Application:
\* the image the build produced for Component `component`, the recorded
\* image for every other one.
OverlaysComponents(list, run, component) ==
    /\ Len(list) = Cardinality(DOMAIN components)
    /\ {list[i].Name : i \in 1..Len(list)} = DOMAIN components
    /\ \A i \in 1..Len(list) :
          list[i].ContainerImage = IF list[i].Name = component
                                   THEN BuiltImage(run)
                                   ELSE components[list[i].Name]

\* C18 as claimed: the Snapshot a handling prepares for its Create has one
\* entry for each Component listed, with the image the build produced for
\* the triggering Component and the recorded image for every other one; the
\* Snapshot created is the one prepared, labelled with the triggering
\* Component.
C18_CreatedSnapshotContents ==
    [][\A k \in Handlers :
          /\ (h[k].pc = "createPrepare" /\ h'[k].pc = "create")
             => OverlaysComponents(h'[k].prepared.Components,
                                   h[k].run, h[k].component)
          /\ (h[k].pc = "create" /\ h'[k].pc = "done"
                               /\ Len(snapshots') = Len(snapshots) + 1)
             => /\ snapshots'[Len(snapshots')] = h[k].prepared
                /\ h[k].prepared.Application = AppName
                /\ h[k].prepared.component = h[k].run.component]_vars


NotLabelledOptionalFalse == {s \in ScenarioNames : scenarios[s] \in {"", "true"}}

CarriesVerdict(condition, passed) ==
    /\ condition.LastTransitionTime # 0
    /\ condition.Status = MarkedCondition(passed).Status
    /\ condition.Reason = MarkedCondition(passed).Reason
    /\ condition.Message = MarkedCondition(passed).Message

\* C21 as claimed: a markSnapshotAs... call that writes the verdict the
\* stored Snapshot already carries leaves the stored Snapshot, its
\* conditions and its resourceVersion as they were.
C21_VerdictWriteIdempotent ==
    [][(/\ call.pc = "read" /\ call'.pc = "marked"
        /\ CarriesVerdict(call.stored.condition, call.passed))
       => call'.stored = call.stored]_vars


\* C22 as claimed: a handling in which a Get or a List failed (the List of
\* the test PipelineRuns, or one of the reads after which the operation
\* returns RequeueWithError) has written nothing to the store and returns a
\* result that has the event delivered again.
C22_ReadFailureIsRetried ==
    \A k \in Handlers :
        (/\ h[k].pc = "done"
         /\ \/ h[k].err = "listRuns"
            \/ /\ h[k].result = RequeueWithError
               /\ ~(IsIntegrationPipelineRun(h[k].run) /\ h[k].run.snapshot = 0))
        => (h[k].ops = {} /\ Redelivered(h[k].result))


\* C23 as claimed: the Snapshot a handling creates carries the combination
\* the handling compared against the Snapshots it listed, whatever became of
\* the Components between the two steps.
C23_CreatedIsTheComparedCombination ==
    [][\A k \in Handlers :
          (/\ h[k].pc = "create"
           /\ h'[k].pc = "done"
           /\ Len(snapshots') = Len(snapshots) + 1)
          => Combination(snapshots'[Len(snapshots')].Components)
                 = Combination(h[k].expected.Components)]_vars


\* C24 as claimed: two Snapshots with the same completed test PipelineRuns
\* have the same verdict once every completion event has been handled,
\* whatever the order in which the events of each were handled.
C24_VerdictIndependentOfOrder ==
    (events = {} /\ \A k \in Handlers : h[k].pc = "idle")
    => snapshots[1].condition = snapshots[2].condition

=============================================================================
